---- MODULE Spec2Model ----
\* Model of scripts/add_verification_dates.py: the batch updater that stamps
\* every program record of the YAML data files with verified_date.
EXTENDS Integers, Sequences, FiniteSets, TLC

\* ---------------------------------------------------------------- bounds
\* Longest record sequence of the generated input documents.
MaxRecords == 3
\* Number of successive runs of the script.
MaxRuns == 2

\* ------------------------------------------------------- YAML data model
\* A parsed value (what yaml.safe_load returns).  kind is one of
\* "null", "str", "int", "date", "seq", "map"; v is the scalar's value,
\* items the elements of a list, kv the (key, value) pairs of a dict in
\* insertion order.
Null == [kind |-> "null", v |-> "", items |-> <<>>, kv |-> <<>>]
Str(s) == [kind |-> "str", v |-> s, items |-> <<>>, kv |-> <<>>]
Scalar(k, s) == [kind |-> k, v |-> s, items |-> <<>>, kv |-> <<>>]
List(xs) == [kind |-> "seq", v |-> "", items |-> xs, kv |-> <<>>]
Dict(pairs) == [kind |-> "map", v |-> "", items |-> <<>>, kv |-> pairs]

\* A node of YAML text: a plain or a quoted scalar, a sequence or a mapping.
TPlain(s) == [kind |-> "plain", v |-> s, items |-> <<>>, kv |-> <<>>]
TQuoted(s) == [kind |-> "quoted", v |-> s, items |-> <<>>, kv |-> <<>>]
TSeq(xs) == [kind |-> "seq", v |-> "", items |-> xs, kv |-> <<>>]
TMap(pairs) == [kind |-> "map", v |-> "", items |-> <<>>, kv |-> pairs]

\* The content of a file: wf says whether it is well-formed YAML, style
\* whether it is hand-written text (comments, free layout, any quoting) or
\* the block-style text yaml.dump emits, tree is the YAML text itself.
FileText(w, s, t) == [wf |-> w, style |-> s, tree |-> t]
EmptyText == FileText(TRUE, "block", TPlain(""))
Malformed == FileText(FALSE, "hand", TPlain(""))
Absent == FileText(FALSE, "absent", TPlain(""))

\* The implicit resolver of the YAML loader: the type of a plain scalar.
NullLex == {"", "null", "~"}
IntLex == {"0", "42"}
DateLex == {"2025-12-16", "2024-01-01"}
Resolve(lex) ==
    IF lex \in NullLex THEN "null"
    ELSE IF lex \in IntLex THEN "int"
    ELSE IF lex \in DateLex THEN "date"
    ELSE "str"

RECURSIVE Construct(_)
\* The value the safe constructor builds from a YAML text node.
Construct(t) ==
    CASE t.kind = "plain" ->
           IF Resolve(t.v) = "null" THEN Null ELSE Scalar(Resolve(t.v), t.v)
      [] t.kind = "quoted" -> Str(t.v)
      [] t.kind = "seq" ->
           List([i \in 1..Len(t.items) |-> Construct(t.items[i])])
      [] t.kind = "map" ->
           Dict([i \in 1..Len(t.kv) |-> <<t.kv[i][1], Construct(t.kv[i][2])>>])

\* yaml.safe_load(content) of well-formed text.
safe_load(content) == Construct(content.tree)

RECURSIVE Represent(_)
\* The YAML text node the representer emits for a value: a string that a
\* plain scalar would resolve to another type is quoted; keys keep their
\* insertion order (sort_keys=False).
Represent(n) ==
    CASE n.kind = "null" -> TPlain("null")
      [] n.kind = "str" ->
           IF Resolve(n.v) # "str" THEN TQuoted(n.v) ELSE TPlain(n.v)
      [] n.kind \in {"int", "date"} -> TPlain(n.v)
      [] n.kind = "seq" ->
           TSeq([i \in 1..Len(n.items) |-> Represent(n.items[i])])
      [] n.kind = "map" ->
           TMap([i \in 1..Len(n.kv) |-> <<n.kv[i][1], Represent(n.kv[i][2])>>])

\* Keys in alphabetical order.
KeyOrder == <<"k", "name", "programs", "title", "verified_date">>
SortedPairs(pairs) ==
    LET present ==
            SelectSeq(KeyOrder,
                      LAMBDA k : \E i \in 1..Len(pairs) : pairs[i][1] = k)
        pos(k) == CHOOSE i \in 1..Len(pairs) : pairs[i][1] = k
    IN  [i \in 1..Len(present) |-> pairs[pos(present[i])]]

RECURSIVE RepresentSorted(_)
RepresentSorted(n) ==
    CASE n.kind = "seq" ->
           TSeq([i \in 1..Len(n.items) |-> RepresentSorted(n.items[i])])
      [] n.kind = "map" ->
           TMap(SortedPairs(
               [i \in 1..Len(n.kv) |->
                   <<n.kv[i][1], RepresentSorted(n.kv[i][2])>>]))
      [] OTHER -> Represent(n)

\* yaml.dump with its default sort_keys=True.
dump_sorted(d) == FileText(TRUE, "block", RepresentSorted(d))

\* yaml.dump(data, f, default_flow_style=False, allow_unicode=True,
\* sort_keys=False): the text written to the file.
dump(d) == FileText(TRUE, "block", Represent(d))

\* ------------------------------------------------------ Python semantics
\* "data is not None" in place of the truth value.
IsNotNone(d) == d.kind # "null"

\* Truth value of a parsed document ("not data" is its negation).
Truthy(d) ==
    CASE d.kind = "null" -> FALSE
      [] d.kind = "str" -> d.v # ""
      [] d.kind = "int" -> d.v # "0"
      [] d.kind = "date" -> TRUE
      [] d.kind = "seq" -> Len(d.items) > 0
      [] d.kind = "map" -> Len(d.kv) > 0

\* isinstance(x, (dict, list))
IsDictOrList(x) == x.kind \in {"map", "seq"}

\* isinstance(x, list), isinstance(x, dict)
IsList(x) == x.kind = "seq"
IsDict(x) == x.kind = "map"

\* Position of key k in a dict's pairs, 0 when absent.
KeyPos(pairs, k) ==
    IF \E i \in 1..Len(pairs) : pairs[i][1] = k
    THEN CHOOSE i \in 1..Len(pairs) : pairs[i][1] = k
    ELSE 0

HasKey(d, k) == KeyPos(d.kv, k) # 0

\* d.get(k) without the default: None when the key is absent.
GetNoDefault(d, k, default) ==
    IF HasKey(d, k) THEN d.kv[KeyPos(d.kv, k)][2] ELSE Null

\* d.get(k, default)
Get(d, k, default) ==
    IF HasKey(d, k) THEN d.kv[KeyPos(d.kv, k)][2] ELSE default

\* d.setdefault(k, val): add the key only if it is missing.
SetDefault(d, k, val) ==
    IF HasKey(d, k) THEN d ELSE [d EXCEPT !.kv = Append(d.kv, <<k, val>>)]

\* d[k] = val: an existing key keeps its position, a new key is appended.
SetItem(d, k, val) ==
    IF HasKey(d, k)
    THEN [d EXCEPT !.kv[KeyPos(d.kv, k)] = <<k, val>>]
    ELSE [d EXCEPT !.kv = Append(d.kv, <<k, val>>)]

\* Whether iter(x) succeeds, and the elements the iteration yields: the
\* elements of a list, the keys of a dict, the characters of a string (the
\* strings of the model have at most one character where it matters).
Iterable(x) == x.kind \in {"seq", "map", "str"}
Elems(x) ==
    CASE x.kind = "seq" -> x.items
      [] x.kind = "map" -> [i \in 1..Len(x.kv) |-> Str(x.kv[i][1])]
      [] x.kind = "str" -> IF x.v = "" THEN <<>> ELSE <<Str(x.v)>>
      [] OTHER -> <<>>

\* ------------------------------------------------------------ the script
\* data_dirs = [Path("_data/programs"), Path("_data/college-university")]
data_dirs == <<"_data/programs", "_data/college-university">>

\* ---------------------------------------------------------- file system
\* A path: the configured directory it lies under (or another one), whether
\* it lies in a subdirectory of it, its stem and its extension.
Path(d, s, n, e) == [dir |-> d, sub |-> s, name |-> n, ext |-> e]
NoPath == Path("", FALSE, "", "")
Pa == Path("_data/programs", FALSE, "a", "yml")
Pb == Path("_data/programs", FALSE, "b", "yml")
Ptxt == Path("_data/programs", FALSE, "notes", "txt")
Psub == Path("_data/programs", TRUE, "c", "yml")
Pd == Path("_data/college-university", FALSE, "d", "yml")
Pout == Path("_data", FALSE, "e", "yml")
Paths == {Pa, Pb, Ptxt, Psub, Pd, Pout}
Dirs == {data_dirs[i] : i \in 1..Len(data_dirs)}

\* data_dir.rglob("*.yml"): subdirectories included.
RGlob(d) == {p \in Paths : p.dir = d /\ p.ext = "yml"}

\* data_dir.glob("*.yml"): the entries directly in the directory whose name
\* ends in .yml.
Glob(d) == {p \in Paths : p.dir = d /\ ~p.sub /\ p.ext = "yml"}

\* ------------------------------------------------------ input documents
tAlpha == TMap(<< <<"name", TPlain("Alpha")>> >>)
tBeta ==
    TMap(<< <<"verified_date", TQuoted("2024-01-01")>>, <<"name", TPlain("Beta")>> >>)
tGamma ==
    TMap(<< <<"name", TPlain("Gamma")>>, <<"verified_date", TPlain("2025-12-16")>> >>)
\* Elements a record sequence is drawn from: a record without the field, a
\* record with the field first and holding another date, a string and a
\* nested sequence that holds a record.
Elements == {tAlpha, tBeta, TPlain("note"), TSeq(<<tAlpha>>)}
SeqTrees == UNION {[1..n -> Elements] : n \in 0..MaxRecords}
ListDocs == {TSeq(s) : s \in SeqTrees}
DictDocs ==
    {TMap(<< <<"title", TPlain("T")>>, <<"programs", TSeq(s)>> >>) : s \in SeqTrees}
OddDocs ==
    { TMap(<< <<"title", TPlain("T")>> >>),
      TMap(<<>>),
      TMap(<< <<"programs", TPlain("null")>> >>),
      TMap(<< <<"programs", TPlain("x")>> >>),
      TMap(<< <<"programs", TMap(<< <<"k", tAlpha>> >>)>> >>),
      TPlain(""), TPlain("~"), TQuoted(""), TPlain("0"),
      TPlain("hello"), TPlain("42"), TPlain("2024-01-01") }
TextsA ==
    {FileText(TRUE, "hand", t) : t \in ListDocs \cup DictDocs \cup OddDocs}
        \cup {Malformed}
TextsB ==
    { FileText(TRUE, "hand", TSeq(<<tGamma, tAlpha>>)),
      FileText(TRUE, "hand", TMap(<< <<"programs", TSeq(<<tBeta>>)>> >>)),
      Malformed }
TextsD ==
    { FileText(TRUE, "hand", TSeq(<<TPlain("null"), tBeta>>)),
      EmptyText }
Hand(t) == FileText(TRUE, "hand", t)

\* ---------------------------------------------------------------- state
VARIABLES
    fs,         \* content of every path
    exists,     \* which configured directories exist
    pc,         \* position of the script
    dirIdx,     \* position of the data_dir loop in data_dirs
    pending,    \* entries the glob iterator has not yielded yet
    yaml_file,  \* loop variable of the file loop
    handles,    \* open file handles, as <<path, mode>>
    content,    \* text read from yaml_file
    data,       \* parsed document
    programs,   \* the record sequence (the same object as data or data['programs'])
    idx,        \* position of the record loop
    total,      \* running count of updated records
    reported,   \* whether the final count has been printed
    error,      \* the exception that ended the run, "none" otherwise
    run,        \* number of the current run
    fsRun,      \* history: the file system when the current run started
    reads,      \* history: how often each path was opened for reading in this run
    writes,     \* history: how often each path was opened for writing in this run
    total0      \* history: total when the current file was picked

vars ==
    << fs, exists, pc, dirIdx, pending, yaml_file, handles, content, data,
       programs, idx, total, reported, error, run, fsRun, reads, writes, total0 >>

\* A date that follows the clock: the next day on the next run.
today_clock == IF run = 1 THEN "2025-12-16" ELSE "2025-12-17"

\* today = "2025-12-16"
today == "2025-12-16"

\* Whether the directory a path lies under exists.
DirPresent(p, ex) == IF p.dir \in Dirs THEN ex[p.dir] ELSE TRUE

\* State of the interpreter when the module starts executing (line 13).
Start ==
    /\ pc = "dir_loop"
    /\ dirIdx = 1
    /\ pending = {}
    /\ yaml_file = NoPath
    /\ handles = {}
    /\ content = EmptyText
    /\ data = Null
    /\ programs = Null
    /\ idx = 0
    /\ total = 0
    /\ reported = FALSE
    /\ error = "none"
    /\ total0 = 0

Init ==
    /\ exists \in [Dirs -> BOOLEAN]
    /\ \E ta \in TextsA, tb \in TextsB, td \in TextsD :
          fs = [p \in Paths |->
                  IF ~DirPresent(p, exists) THEN Absent
                  ELSE IF p = Pa THEN ta
                  ELSE IF p = Pb THEN tb
                  ELSE IF p = Pd THEN td
                  ELSE Hand(TSeq(<<tAlpha>>))]
    /\ fsRun = fs
    /\ run = 1
    /\ reads = [p \in Paths |-> 0]
    /\ writes = [p \in Paths |-> 0]
    /\ Start

\* An exception caught per file: the loop goes on with the next file.
RaiseCaught(e) ==
    /\ pc' = "file_loop"
    /\ error' = e
    /\ handles' = {}

\* An unhandled exception: the traceback is printed and the interpreter
\* exits; a with-block closes its handle on the way out.
Raise(e) ==
    /\ pc' = "aborted"
    /\ error' = e
    /\ handles' = {}

\* Lines 14-16: the data_dir loop; after the last directory, line 46.
DirLoop ==
    /\ pc = "dir_loop"
    /\ IF dirIdx > Len(data_dirs)
       THEN /\ pc' = "report"
            /\ UNCHANGED <<dirIdx, pending>>
       ELSE IF ~exists[data_dirs[dirIdx]]
       THEN /\ pc' = "dir_loop"
            /\ dirIdx' = dirIdx + 1
            /\ UNCHANGED pending
       ELSE /\ pc' = "file_loop"
            /\ dirIdx' = dirIdx + 1
            /\ pending' = Glob(data_dirs[dirIdx])
    /\ UNCHANGED << fs, exists, yaml_file, handles, content, data, programs,
                    idx, total, reported, error, run, fsRun, reads, writes,
                    total0 >>

\* Lines 18-19: the glob iterator yields the next entry, in whatever order
\* the directory lists them, or is exhausted.
NextFile ==
    /\ pc = "file_loop"
    /\ IF pending = {}
       THEN /\ pc' = "dir_loop"
            /\ UNCHANGED <<pending, yaml_file, total0>>
       ELSE \E p \in pending :
            /\ yaml_file' = p
            /\ pending' = pending \ {p}
            /\ total0' = total
            /\ pc' = "open_read"
    /\ UNCHANGED << fs, exists, dirIdx, handles, content, data, programs, idx,
                    total, reported, error, run, fsRun, reads, writes >>

\* Line 21: open(yaml_file, 'r').
OpenRead ==
    /\ pc = "open_read"
    /\ fs[yaml_file] # Absent
    /\ handles' = handles \cup {<<yaml_file, "r">>}
    /\ reads' = [reads EXCEPT ![yaml_file] = @ + 1]
    /\ pc' = "read"
    /\ UNCHANGED << fs, exists, dirIdx, pending, yaml_file, content, data,
                    programs, idx, total, reported, error, run, fsRun, writes,
                    total0 >>

\* f = open(...); content = f.read() without closing the handle.
ReadNoClose ==
    /\ pc = "read"
    /\ content' = fs[yaml_file]
    /\ pc' = "parse"
    /\ UNCHANGED << fs, exists, dirIdx, pending, yaml_file, handles, data,
                    programs, idx, total, reported, error, run, fsRun, reads,
                    writes, total0 >>

\* Line 22 and the end of the with-block: read everything, close.
ReadClose ==
    /\ pc = "read"
    /\ content' = fs[yaml_file]
    /\ handles' = handles \ {<<yaml_file, "r">>}
    /\ pc' = "parse"
    /\ UNCHANGED << fs, exists, dirIdx, pending, yaml_file, data, programs,
                    idx, total, reported, error, run, fsRun, reads, writes,
                    total0 >>

\* Line 25: data = yaml.safe_load(content); malformed text raises.
SafeLoad ==
    /\ pc = "parse"
    /\ IF content.wf
       THEN /\ data' = safe_load(content)
            /\ pc' = "check_empty"
            /\ UNCHANGED <<error, handles>>
       ELSE /\ Raise("YAMLError")
            /\ UNCHANGED data
    /\ UNCHANGED << fs, exists, dirIdx, pending, yaml_file, content, programs,
                    idx, total, reported, run, fsRun, reads, writes, total0 >>

\* Lines 27-28: if not data: continue.
CheckEmpty ==
    /\ pc = "check_empty"
    /\ pc' = IF ~Truthy(data) THEN "file_loop" ELSE "select"
    /\ UNCHANGED << fs, exists, dirIdx, pending, yaml_file, handles, content,
                    data, programs, idx, total, reported, error, run, fsRun,
                    reads, writes, total0 >>

\* The write handle opened before the record loop instead of after it.
SelectProgramsOpened ==
    /\ pc = "select"
    /\ fs' = [fs EXCEPT ![yaml_file] = EmptyText]
    /\ IF IsList(data)
       THEN /\ programs' = data
            /\ idx' = 1
            /\ pc' = "for"
            /\ UNCHANGED <<error, handles>>
       ELSE IF IsDict(data)
       THEN /\ programs' = Get(data, "programs", List(<<>>))
            /\ idx' = 1
            /\ pc' = "for"
            /\ UNCHANGED <<error, handles>>
       ELSE /\ Raise("AttributeError")
            /\ UNCHANGED <<programs, idx>>
    /\ UNCHANGED << exists, dirIdx, pending, yaml_file, content, data,
                    total, reported, run, fsRun, reads, writes, total0 >>

\* Line 31: programs = data if isinstance(data, list) else
\* data.get('programs', []); only a dict has get.
SelectPrograms ==
    /\ pc = "select"
    /\ IF IsList(data)
       THEN /\ programs' = data
            /\ idx' = 1
            /\ pc' = "for"
            /\ UNCHANGED <<error, handles>>
       ELSE IF IsDict(data)
       THEN /\ programs' = Get(data, "programs", List(<<>>))
            /\ idx' = 1
            /\ pc' = "for"
            /\ UNCHANGED <<error, handles>>
       ELSE /\ Raise("AttributeError")
            /\ UNCHANGED <<programs, idx>>
    /\ UNCHANGED << fs, exists, dirIdx, pending, yaml_file, content, data,
                    total, reported, run, fsRun, reads, writes, total0 >>

\* program['verified_date'] = today on element i of a list.
StampAt(lst, i) ==
    [lst EXCEPT !.items[i] = SetItem(@, "verified_date", Str(today))]

\* Lines 33-37: one step of the record loop.  The mutation is in place:
\* programs is data itself or the list stored under data['programs'].
ForProgram ==
    /\ pc = "for"
    /\ IF ~Iterable(programs)
       THEN /\ Raise("TypeError")
            /\ UNCHANGED <<programs, data, idx, total>>
       ELSE IF idx > Len(Elems(programs))
       THEN /\ pc' = "open_write"
            /\ UNCHANGED <<programs, data, idx, total, error, handles>>
       ELSE /\ IF IsDict(Elems(programs)[idx])
               THEN /\ programs' = StampAt(programs, idx)
                    /\ data' = IF IsList(data)
                               THEN StampAt(data, idx)
                               ELSE [data EXCEPT
                                       !.kv[KeyPos(data.kv, "programs")][2] =
                                           StampAt(@, idx)]
                    /\ total' = total + 1
               ELSE UNCHANGED <<programs, data, total>>
            /\ idx' = idx + 1
            /\ pc' = "for"
            /\ UNCHANGED <<error, handles>>
    /\ UNCHANGED << fs, exists, dirIdx, pending, yaml_file, content, reported,
                    run, fsRun, reads, writes, total0 >>

\* Line 40: open(yaml_file, 'w') truncates the file.
OpenWrite ==
    /\ pc = "open_write"
    /\ handles' = handles \cup {<<yaml_file, "w">>}
    /\ fs' = [fs EXCEPT ![yaml_file] = EmptyText]
    /\ writes' = [writes EXCEPT ![yaml_file] = @ + 1]
    /\ pc' = "dump"
    /\ UNCHANGED << exists, dirIdx, pending, yaml_file, content, data,
                    programs, idx, total, reported, error, run, fsRun, reads,
                    total0 >>

\* Lines 41-44 and the end of the with-block: both branches dump alike.
DumpClose ==
    /\ pc = "dump"
    /\ fs' = [fs EXCEPT ![yaml_file] = dump(data)]
    /\ handles' = handles \ {<<yaml_file, "w">>}
    /\ pc' = "file_loop"
    /\ UNCHANGED << exists, dirIdx, pending, yaml_file, content, data,
                    programs, idx, total, reported, error, run, fsRun, reads,
                    writes, total0 >>

\* Lines 21, 22, 40, 42: the operating system refuses the open, the read or
\* the write (permissions, a directory named *.yml, a full disk).
RaiseIOError ==
    /\ pc \in {"open_read", "read", "open_write", "dump"}
    /\ Raise("OSError")
    /\ UNCHANGED << fs, exists, dirIdx, pending, yaml_file, content, data,
                    programs, idx, total, reported, run, fsRun, reads, writes,
                    total0 >>

\* Line 46: print the total.
Report ==
    /\ pc = "report"
    /\ reported' = TRUE
    /\ pc' = "done"
    /\ UNCHANGED << fs, exists, dirIdx, pending, yaml_file, handles, content,
                    data, programs, idx, total, error, run, fsRun, reads,
                    writes, total0 >>

\* The script is started again after a complete run.
RunAgain ==
    /\ pc = "done"
    /\ run < MaxRuns
    /\ run' = run + 1
    /\ fsRun' = fs
    /\ reads' = [p \in Paths |-> 0]
    /\ writes' = [p \in Paths |-> 0]
    /\ pc' = "dir_loop"
    /\ dirIdx' = 1
    /\ pending' = {}
    /\ yaml_file' = NoPath
    /\ handles' = {}
    /\ content' = EmptyText
    /\ data' = Null
    /\ programs' = Null
    /\ idx' = 0
    /\ total' = 0
    /\ reported' = FALSE
    /\ error' = "none"
    /\ total0' = 0
    /\ UNCHANGED <<fs, exists>>

Next ==
    \/ DirLoop
    \/ NextFile
    \/ OpenRead
    \/ ReadClose
    \/ SafeLoad
    \/ CheckEmpty
    \/ SelectPrograms
    \/ ForProgram
    \/ OpenWrite
    \/ DumpClose
    \/ RaiseIOError
    \/ Report
    \/ RunAgain

Spec == Init /\ [][Next]_vars

\* ======================================================= properties
\* The files a run is meant to process: the .yml entries directly in the
\* configured directories that exist.
Eligible ==
    {p \in Paths : p.dir \in Dirs /\ exists[p.dir] /\ ~p.sub /\ p.ext = "yml"}

\* The document of a path when the current run started, and now.
Doc0(p) == safe_load(fsRun[p])
DocNow(p) == safe_load(fs[p])

\* Value of field k of a mapping, Null when it has no such key.
Field(m, k) ==
    LET S == {i \in 1..Len(m.kv) : m.kv[i][1] = k}
    IN  IF S = {} THEN Null ELSE m.kv[CHOOSE i \in S : TRUE][2]
HasField(m, k) == \E i \in 1..Len(m.kv) : m.kv[i][1] = k
FieldIndex(m, k) ==
    IF HasField(m, k) THEN CHOOSE i \in 1..Len(m.kv) : m.kv[i][1] = k ELSE 0

\* A document the specification calls empty.
Falsy(d) ==
    \/ d.kind = "null"
    \/ d.kind = "str" /\ d.v = ""
    \/ d.kind = "int" /\ d.v = "0"
    \/ d.kind = "seq" /\ d.items = <<>>
    \/ d.kind = "map" /\ d.kv = <<>>

\* Whether a document is in mapping form with a sequence under programs.
HasProgramsSeq(d) ==
    d.kind = "map" /\ HasField(d, "programs") /\ Field(d, "programs").kind = "seq"

\* The record sequence of a document, as the specification defines it.
RecordsOf(d) ==
    IF d.kind = "seq" THEN d.items
    ELSE IF HasProgramsSeq(d) THEN Field(d, "programs").items
    ELSE <<>>

\* Number of mapping records of a record sequence.
NumMaps(s) == Cardinality({i \in 1..Len(s) : s[i].kind = "map"})

\* A record stamped with the date: the key keeps its place or goes last.
StampedRecord(e) ==
    IF e.kind # "map" THEN e
    ELSE IF HasField(e, "verified_date")
    THEN [e EXCEPT !.kv[FieldIndex(e, "verified_date")] =
                       <<"verified_date", Str("2025-12-16")>>]
    ELSE [e EXCEPT !.kv = Append(e.kv, <<"verified_date", Str("2025-12-16")>>)]
StampedSeq(s) == [i \in 1..Len(s) |-> StampedRecord(s[i])]

\* The document a run is expected to leave for document d.
Expected(d) ==
    IF d.kind = "seq" THEN [d EXCEPT !.items = StampedSeq(d.items)]
    ELSE IF HasProgramsSeq(d)
    THEN [d EXCEPT !.kv[FieldIndex(d, "programs")][2].items = StampedSeq(@)]
    ELSE d

\* A record without its verified_date field, the other pairs in order.
StripRecord(e) ==
    IF e.kind # "map" THEN e
    ELSE [e EXCEPT !.kv = SelectSeq(e.kv, LAMBDA kv : kv[1] # "verified_date")]
StripSeq(s) == [i \in 1..Len(s) |-> StripRecord(s[i])]

\* A document without the verified_date fields of its records.
Strip(d) ==
    IF d.kind = "seq" THEN [d EXCEPT !.items = StripSeq(d.items)]
    ELSE IF HasProgramsSeq(d)
    THEN [d EXCEPT !.kv[FieldIndex(d, "programs")][2].items = StripSeq(@)]
    ELSE d

\* Records the current run is expected to count for path p.
CountOf(p) ==
    IF fsRun[p].wf /\ ~Falsy(Doc0(p)) THEN NumMaps(RecordsOf(Doc0(p))) ELSE 0

RECURSIVE SumCount(_)
SumCount(S) ==
    IF S = {} THEN 0
    ELSE LET p == CHOOSE x \in S : TRUE IN CountOf(p) + SumCount(S \ {p})

C4_SecondRunIdempotent ==
    /\ (pc = "done" /\ run >= 2) =>
          \A p \in Eligible : fs[p].wf /\ DocNow(p) = Doc0(p)
    /\ pc = "done" =>
          \A p \in Eligible :
             (fsRun[p].wf /\ ~Falsy(Doc0(p))) =>
                \A i \in 1..Len(RecordsOf(Doc0(p))) :
                   LET r0 == RecordsOf(Doc0(p))[i]
                       r1 == RecordsOf(DocNow(p))[i]
                   IN  r0.kind = "map" =>
                          FieldIndex(r1, "verified_date") =
                             IF HasField(r0, "verified_date")
                             THEN FieldIndex(r0, "verified_date")
                             ELSE Len(r0.kv) + 1

C4_Witness ==
    /\ pc = "done"
    /\ run = 2
    /\ writes[Pa] = 1
    /\ DocNow(Pa) = Expected(Construct(TSeq(<<tAlpha, tBeta>>)))
    /\ total >= 2

\* C5: a file whose document is empty (null, empty string, zero, empty
\* sequence, empty mapping) is never opened for writing and keeps its
\* content; the step that finds it empty goes on to the next file without
\* touching the total.
C5_EmptySkipped ==
    /\ [](\A p \in Eligible :
             (fsRun[p].wf /\ Falsy(Doc0(p))) =>
                (fs[p] = fsRun[p] /\ writes[p] = 0))
    /\ [][(pc = "check_empty" /\ Falsy(data)) =>
             (pc' = "file_loop" /\ total' = total /\ fs' = fs
                 /\ error' = "none")]_vars

C5_Witness ==
    /\ pc = "done"
    /\ run = 1
    /\ fsRun[Pa] = Hand(TSeq(<<>>))
    /\ reads[Pa] = 1
    /\ writes[Pa] = 0
    /\ reads[Pb] = 1
    /\ reads[Pd] = 1

\* C6: only .yml files directly in the configured directories that exist
\* are read or written, and a complete run reads every one of them; a
\* missing directory raises no error, adds nothing to the total and does
\* not keep the other directory from being processed.
C6_OnlyConfiguredYml ==
    /\ \A p \in Paths \ Eligible :
          reads[p] = 0 /\ writes[p] = 0 /\ fs[p] = fsRun[p]
    /\ \A h \in handles : h[1] \in Eligible
    /\ pc \in {"open_read", "read", "parse", "check_empty", "select", "for",
               "open_write", "dump", "aborted"} => yaml_file \in Eligible
    /\ pc = "done" =>
          /\ \A p \in Eligible : reads[p] = 1
          /\ error = "none"
          /\ total = SumCount({p \in Paths : p.dir \in Dirs /\ exists[p.dir]
                                   /\ ~p.sub /\ p.ext = "yml"})
    /\ (pc = "done" /\ \A d \in Dirs : ~exists[d]) => total = 0

C6_Witness ==
    /\ pc = "done"
    /\ ~exists["_data/programs"]
    /\ exists["_data/college-university"]
    /\ reads[Pd] = 1
    /\ writes[Pd] = 1
    /\ total = 1

\* C7: a parse or I/O failure ends the run at once: nothing is read,
\* written or reported after it, and the files written before it keep
\* their updated content.
C7_FailFast ==
    /\ [](pc = "aborted" =>
             /\ error # "none"
             /\ ~reported
             /\ handles = {}
             /\ \A p \in Paths \ {yaml_file} :
                   /\ writes[p] = 1 =>
                         (fs[p].wf /\ fs[p].style = "block"
                             /\ DocNow(p) = Expected(Doc0(p)))
                   /\ p \in pending =>
                         (reads[p] = 0 /\ writes[p] = 0 /\ fs[p] = fsRun[p]))
    /\ [](error # "none" => pc = "aborted")
    /\ [][error = "none"]_vars

C7_Witness ==
    /\ pc = "aborted"
    /\ error = "YAMLError"
    /\ yaml_file = Pb
    /\ writes[Pa] = 1
    /\ fs[Pa] # fsRun[Pa]
    /\ exists["_data/college-university"]
    /\ reads[Pd] = 0

\* C8: at most one file handle is open at a time and it is a handle on the
\* current file; the read handle is closed before the file is parsed and
\* before its write handle is opened, the write handle before the next file
\* is opened; a file is read once and written at most once in a run, the
\* write after the read.
C8_OneHandleAtATime ==
    /\ Cardinality(handles) <= 1
    /\ \A h \in handles : h[1] = yaml_file
    /\ <<yaml_file, "r">> \in handles => pc = "read"
    /\ <<yaml_file, "w">> \in handles => pc = "dump"
    /\ pc \notin {"read", "dump"} => handles = {}
    /\ \A p \in Paths :
          /\ reads[p] <= 1
          /\ writes[p] <= reads[p]
    /\ pc = "done" => \A p \in Eligible : reads[p] = 1

C8_Witness ==
    /\ pc = "dump"
    /\ handles = {<<Pd, "w">>}
    /\ writes[Pa] = 1
    /\ writes[Pb] = 1

C10_FailureBeforeWrite ==
    /\ [](error \in {"YAMLError", "AttributeError", "TypeError"} =>
             (fs[yaml_file] = fsRun[yaml_file] /\ writes[yaml_file] = 0))
    /\ [](pc \in {"open_read", "read", "parse", "check_empty", "select", "for",
                  "open_write"} =>
             (fs[yaml_file] = fsRun[yaml_file] /\ writes[yaml_file] = 0))
    /\ [][/\ (pc = "parse" /\ ~content.wf) => error' = "YAMLError"
          /\ (pc = "select" /\ data.kind \notin {"seq", "map"}) =>
                error' = "AttributeError"
          /\ (pc = "for" /\ programs.kind \in {"null", "int", "date"}) =>
                error' = "TypeError"]_vars

C10_Witness ==
    /\ pc = "aborted"
    /\ error = "TypeError"
    /\ yaml_file = Pa
    /\ fs[Pa] = Hand(TMap(<< <<"programs", TPlain("null")>> >>))
    /\ reads[Pa] = 1

====
